---- MODULE Spec2Model ----
(***************************************************************************)
(* Model of the Bluesky followers scraper:                                 *)
(*   src/src/extractors/bluesky_parser.py  (fetch_followers, normalizer)   *)
(*   src/src/extractors/utils_time.py      (ensure_iso8601, format alias)  *)
(*   src/src/outputs/exporters.py          (export_followers, writers)     *)
(*   src/src/runner.py                     (ensure_output_path, main)      *)
(***************************************************************************)
EXTENDS Integers, Sequences, FiniteSets, TLC

(***************************************************************************)
(* Bounds of the model.                                                    *)
(***************************************************************************)
\* largest limit passed to fetch_followers
MaxLimit == 3
\* largest number of followers the remote API holds / serves in one page
MaxTotal == 4
\* largest number of records handed to the export engine
MaxRecords == 2

(***************************************************************************)
(* Python values.  Every value is a record tagged with its Python type.    *)
(* A dict is an insertion-ordered sequence of entries with distinct keys.  *)
(***************************************************************************)
PyNone == [t |-> "none"]
PyStr(s) == [t |-> "str", v |-> s]
PyInt(n) == [t |-> "int", v |-> n]
PyList(xs) == [t |-> "list", v |-> xs]
PyDict(es) == [t |-> "dict", v |-> es]
Entry(k, val) == [k |-> k, v |-> val]

\* Python truthiness: None, "", 0, [] and {} are falsy.
Truthy(x) ==
    CASE x.t = "none" -> FALSE
      [] x.t = "str" -> x.v # ""
      [] x.t = "int" -> x.v # 0
      [] x.t = "list" -> x.v # <<>>
      [] x.t = "dict" -> x.v # <<>>
      [] OTHER -> TRUE

\* a or b
PyOr(a, b) == IF Truthy(a) THEN a ELSE b

\* list(d.keys()) in insertion order
Keys(d) == [i \in 1..Len(d.v) |-> d.v[i].k]
KeySet(d) == {d.v[i].k : i \in 1..Len(d.v)}
\* key in d
Has(d, k) == k \in KeySet(d)
\* d.get(k): the value stored under k, None when the key is missing
Get(d, k) ==
    IF Has(d, k)
    THEN (CHOOSE e \in {d.v[i] : i \in 1..Len(d.v)} : e.k = k).v
    ELSE PyNone
\* d.get(k, default)
GetOr(d, k, default) == IF Has(d, k) THEN Get(d, k) ELSE default

(***************************************************************************)
(* utils_time.ensure_iso8601                                               *)
(***************************************************************************)
\* Timestamp strings of the model: value.strip() of each.
StripTime(s) ==
    CASE s = "   " -> ""
      [] s = " 2023-07-27T23:07:25.712Z " -> "2023-07-27T23:07:25.712Z"
      [] OTHER -> s

\* datetime.fromisoformat(text) after the 'Z' -> '+00:00' rewrite, microseconds
\* cut to milliseconds, rendered by isoformat(); "fail" when parsing raises.
IsoFormat(text) ==
    CASE text = "2023-07-27T23:07:25.712Z" -> "2023-07-27T23:07:25.712000+00:00"
      [] text = "2023-07-27T23:07:25.712999+00:00" -> "2023-07-27T23:07:25.712000+00:00"
      [] text = "2024-01-01T00:00:00Z" -> "2024-01-01T00:00:00+00:00"
      [] OTHER -> "fail"

\* ensure_iso8601 raises AttributeError on a truthy value without .strip()
EnsureIsoRaises(value) == Truthy(value) /\ value.t # "str"

ensure_iso8601(value) ==
    IF ~Truthy(value) THEN PyNone
    ELSE LET text == StripTime(value.v)
         IN  IF text = "" THEN PyNone
             ELSE IF IsoFormat(text) = "fail" THEN value
                  ELSE PyStr(IsoFormat(text))

(***************************************************************************)
(* bluesky_parser.BlueskyFollowerClient: profile link and normalizer       *)
(***************************************************************************)
ProfileBase == "https://bsky.app/profile/"

\* str(x) as an f-string renders it
PyFormat(x) ==
    CASE x.t = "str" -> x.v
      [] x.t = "int" -> ToString(x.v)
      [] OTHER -> "None"

\* faulty variant: the identifier takes precedence over the handle
BuildProfileLinkDidFirst(did, handle) ==
    IF Truthy(did) THEN PyStr(ProfileBase \o PyFormat(did))
    ELSE IF Truthy(handle) THEN PyStr(ProfileBase \o PyFormat(handle))
         ELSE PyNone

_build_profile_link(did, handle) ==
    IF Truthy(handle) THEN PyStr(ProfileBase \o PyFormat(handle))
    ELSE IF Truthy(did) THEN PyStr(ProfileBase \o PyFormat(did))
         ELSE PyNone

PromotedKeys ==
    <<"did", "handle", "displayName", "avatar", "createdAt", "description",
      "labels", "associated", "link_to_profile">>

PromotedKeySet == {PromotedKeys[i] : i \in 1..Len(PromotedKeys)}

\* entries of raw whose key is not yet in the follower dict, in raw order
RECURSIVE Passthrough(_, _)
Passthrough(es, taken) ==
    IF es = <<>> THEN <<>>
    ELSE IF Head(es).k \in taken
         THEN Passthrough(Tail(es), taken)
         ELSE <<Head(es)>> \o Passthrough(Tail(es), taken \cup {Head(es).k})

\* faulty variant: the dict literal leaves out a promoted key when the source lacks it
PromotedEntriesOmitMissing(raw) ==
    LET did == Get(raw, "did")
        handle == Get(raw, "handle")
        all == << Entry("did", did),
                  Entry("handle", handle),
                  Entry("displayName", Get(raw, "displayName")),
                  Entry("avatar", Get(raw, "avatar")),
                  Entry("createdAt", ensure_iso8601(Get(raw, "createdAt"))),
                  Entry("description", PyOr(Get(raw, "description"), Get(raw, "bio"))),
                  Entry("labels", PyOr(Get(raw, "labels"), PyList(<<>>))),
                  Entry("associated", PyOr(Get(raw, "associated"), PyDict(<<>>))),
                  Entry("link_to_profile", _build_profile_link(did, handle)) >>
    IN  SelectSeq(all, LAMBDA e : e.k # "avatar" \/ Has(raw, "avatar"))

\* the nine promoted entries built by the dict literal of _normalize_follower
PromotedEntries(raw) ==
    LET did == Get(raw, "did")
        handle == Get(raw, "handle")
    IN  << Entry("did", did),
           Entry("handle", handle),
           Entry("displayName", Get(raw, "displayName")),
           Entry("avatar", Get(raw, "avatar")),
           Entry("createdAt", ensure_iso8601(Get(raw, "createdAt"))),
           Entry("description", PyOr(Get(raw, "description"), Get(raw, "bio"))),
           Entry("labels", PyOr(Get(raw, "labels"), PyList(<<>>))),
           Entry("associated", PyOr(Get(raw, "associated"), PyDict(<<>>))),
           Entry("link_to_profile", _build_profile_link(did, handle)) >>

\* _normalize_follower raises AttributeError when raw has no .get / .items
NormalizeRaises(raw) ==
    \/ raw.t # "dict"
    \/ EnsureIsoRaises(Get(raw, "createdAt"))

_normalize_follower(raw) ==
    PyDict(PromotedEntries(raw) \o Passthrough(raw.v, PromotedKeySet))

(***************************************************************************)
(* Text that the code strips, lower-cases or rewrites is a sequence of     *)
(* one-character strings.                                                  *)
(***************************************************************************)
PyText(cs) == [t |-> "text", v |-> cs]

\* not x, for None and for text
Falsy(x) == x.t = "none" \/ (x.t = "text" /\ x.v = <<>>)

UpperCase == <<"A", "B", "C", "D", "E", "F", "G", "H", "I", "J", "K", "L", "M",
               "N", "O", "P", "Q", "R", "S", "T", "U", "V", "W", "X", "Y", "Z">>
LowerCase == <<"a", "b", "c", "d", "e", "f", "g", "h", "i", "j", "k", "l", "m",
               "n", "o", "p", "q", "r", "s", "t", "u", "v", "w", "x", "y", "z">>
Whitespace == {" ", "\t", "\n"}

LowerChar(c) ==
    IF \E i \in 1..26 : UpperCase[i] = c
    THEN LowerCase[CHOOSE i \in 1..26 : UpperCase[i] = c]
    ELSE c

\* str.lower()
Lower(cs) == [i \in 1..Len(cs) |-> LowerChar(cs[i])]

\* str.strip(): leading and trailing whitespace removed
RECURSIVE LStrip(_)
LStrip(cs) ==
    IF cs # <<>> /\ Head(cs) \in Whitespace THEN LStrip(Tail(cs)) ELSE cs
RECURSIVE RStrip(_)
RStrip(cs) ==
    IF cs # <<>> /\ cs[Len(cs)] \in Whitespace
    THEN RStrip(SubSeq(cs, 1, Len(cs) - 1))
    ELSE cs
Strip(cs) == RStrip(LStrip(cs))

\* the characters as one string value
RECURSIVE Joined(_)
Joined(cs) == IF cs = <<>> THEN "" ELSE Head(cs) \o Joined(Tail(cs))

\* str.replace(old, new) for a one-character old
Replace(cs, old, new) == [i \in 1..Len(cs) |-> IF cs[i] = old THEN new ELSE cs[i]]

(***************************************************************************)
(* utils_time.sanitize_output_format                                       *)
(***************************************************************************)
\* aliases.get(normalized, normalized)
Aliases(normalized) ==
    CASE normalized = <<"j", "s", "o", "n">> -> <<"j", "s", "o", "n">>
      [] normalized = <<"c", "s", "v">> -> <<"c", "s", "v">>
      [] normalized = <<"x", "m", "l">> -> <<"x", "m", "l">>
      [] normalized = <<"h", "t", "m", "l">> -> <<"h", "t", "m", "l">>
      [] normalized = <<"h", "t", "m">> -> <<"h", "t", "m", "l">>
      [] normalized = <<"r", "s", "s">> -> <<"r", "s", "s">>
      [] OTHER -> normalized

\* faulty variant: the tag is trimmed but not lower-cased
SanitizeNoLower(fmt) ==
    IF Falsy(fmt) THEN PyNone ELSE PyText(Aliases(Strip(fmt.v)))

sanitize_output_format(fmt) ==
    IF Falsy(fmt) THEN PyNone ELSE PyText(Aliases(Lower(Strip(fmt.v))))

(***************************************************************************)
(* outputs.exporters                                                       *)
(***************************************************************************)
JSON == <<"j", "s", "o", "n">>
CSV == <<"c", "s", "v">>
XML == <<"x", "m", "l">>
HTML == <<"h", "t", "m", "l">>
RSS == <<"r", "s", "s">>

Range(f) == {f[i] : i \in 1..Len(f)}

\* json.dumps(value, ensure_ascii=False)
RECURSIVE JsonDumps(_)
RECURSIVE JsonItems(_)
RECURSIVE JsonMembers(_)
JsonItems(xs) ==
    IF xs = <<>> THEN ""
    ELSE JsonDumps(Head(xs)) \o (IF Len(xs) > 1 THEN ", " ELSE "") \o JsonItems(Tail(xs))
JsonMembers(es) ==
    IF es = <<>> THEN ""
    ELSE "\"" \o Head(es).k \o "\": " \o JsonDumps(Head(es).v)
         \o (IF Len(es) > 1 THEN ", " ELSE "") \o JsonMembers(Tail(es))
JsonDumps(x) ==
    CASE x.t = "none" -> "null"
      [] x.t = "str" -> "\"" \o x.v \o "\""
      [] x.t = "int" -> ToString(x.v)
      [] x.t = "list" -> "[" \o JsonItems(x.v) \o "]"
      [] x.t = "dict" -> "{" \o JsonMembers(x.v) \o "}"

\* _to_serializable: primitives as they are, anything else as a JSON string
_to_serializable(value) ==
    IF value.t \in {"str", "int", "none"} THEN value ELSE PyStr(JsonDumps(value))

\* the text csv.writer puts in a cell: None as the empty string, else str(value)
CsvCell(value) == IF value.t = "none" THEN "" ELSE PyFormat(value)

\* for key in follower.keys(): if key not in fieldnames: fieldnames.append(key)
\* (the keys of one dict are distinct)
AddKeys(fieldnames, keys) ==
    fieldnames \o SelectSeq(keys, LAMBDA k : k \notin Range(fieldnames))

\* faulty variant: the columns are taken from the first record only
CollectFieldnamesFirstOnly(followers, fieldnames) ==
    IF followers = <<>> THEN fieldnames ELSE AddKeys(fieldnames, Keys(Head(followers)))

\* for follower in followers: collect every key, in order of first appearance
RECURSIVE CollectFieldnames(_, _)
CollectFieldnames(followers, fieldnames) ==
    IF followers = <<>> THEN fieldnames
    ELSE CollectFieldnames(Tail(followers), AddKeys(fieldnames, Keys(Head(followers))))

\* DictWriter.writerow(row): one cell per fieldname, restval "" for a missing key
CsvRow(follower, fieldnames) ==
    [j \in 1..Len(fieldnames) |->
        IF Has(follower, fieldnames[j])
        THEN CsvCell(_to_serializable(Get(follower, fieldnames[j])))
        ELSE ""]

\* DictWriter.writerow raises ValueError on a key that is no fieldname; the rows
\* written before it stay in the file
CsvRowsWritten(followers, fieldnames) ==
    LET bad == {i \in 1..Len(followers) : ~(KeySet(followers[i]) \subseteq Range(fieldnames))}
        n == IF bad = {} THEN Len(followers)
             ELSE (CHOOSE i \in bad : \A j \in bad : i <= j) - 1
    IN  [i \in 1..n |-> CsvRow(followers[i], fieldnames)]

\* the table _write_csv leaves in the file, and whether a writerow raised
CsvFile(followers) ==
    LET fieldnames == CollectFieldnames(followers, <<>>)
        rows == CsvRowsWritten(followers, fieldnames)
    IN  [kind |-> "csv", header |-> fieldnames, rows |-> rows,
         complete |-> Len(rows) = Len(followers)]

\* what one export_followers call does: text printed, file written, parent
\* directory made, writer entered, exception raised
Outcome(out, file, mk, w, exc) ==
    [stdout |-> out, written |-> file, mkdir |-> mk, writer |-> w, error |-> exc]

\* a format-specific writer with a destination: _ensure_parent_dir, then the file
WriteFile(w, content, output_path, dirs) ==
    Outcome(<<>>, [path |-> output_path, content |-> content],
            IF output_path.parent \in dirs THEN {} ELSE {output_path.parent},
            w,
            IF content.kind = "csv" /\ ~content.complete THEN "ValueError" ELSE "none")

_write_json(followers, output_path, dirs) ==
    IF output_path = PyNone
    THEN Outcome(<<[json |-> followers]>>, PyNone, {}, "json", "none")
    ELSE WriteFile("json", [kind |-> "json", data |-> followers], output_path, dirs)

_write_csv(followers, output_path, dirs) ==
    WriteFile("csv", CsvFile(followers), output_path, dirs)

\* _write_xml, _write_html, _write_rss: the document built from the records
WriteMarkup(w, followers, output_path, dirs) ==
    WriteFile(w, [kind |-> w, data |-> followers], output_path, dirs)

RequiresPath == Outcome(<<>>, PyNone, {}, "none", "ValueError")

\* if not followers: warn, print "[]" for fmt == "json" without a path, return
ExportEmpty(fmt, output_path, dirs) ==
    IF fmt = PyText(JSON) /\ output_path = PyNone
    THEN Outcome(<<[json |-> <<>>]>>, PyNone, {}, "none", "none")
    ELSE Outcome(<<>>, PyNone, {}, "none", "none")

export_followers(followers, fmt, output_path, dirs) ==
    IF followers = <<>> THEN ExportEmpty(fmt, output_path, dirs)
    ELSE LET normalized_fmt == sanitize_output_format(fmt)
         IN  IF Falsy(normalized_fmt) THEN Outcome(<<>>, PyNone, {}, "none", "ValueError")
             ELSE IF normalized_fmt.v = JSON THEN _write_json(followers, output_path, dirs)
             ELSE IF normalized_fmt.v = CSV
                  THEN IF output_path = PyNone THEN RequiresPath
                       ELSE _write_csv(followers, output_path, dirs)
             ELSE IF normalized_fmt.v \in {XML, HTML, RSS}
                  THEN IF output_path = PyNone THEN RequiresPath
                       ELSE WriteMarkup(LET f == normalized_fmt.v
                                        IN  IF f = XML THEN "xml"
                                            ELSE IF f = HTML THEN "html" ELSE "rss",
                                        followers, output_path, dirs)
             ELSE Outcome(<<>>, PyNone, {}, "none", "ValueError")

(***************************************************************************)
(* The remote API (environment of fetch_followers)                         *)
(***************************************************************************)
\* the i-th follower object the API holds
RawFollower(i) ==
    LET did == Entry("did", PyStr("did:plc:" \o ToString(i)))
        handle == Entry("handle", PyStr("u" \o ToString(i) \o ".example"))
        created == Entry("createdAt", PyStr("2023-07-27T23:07:25.712Z"))
        viewer == Entry("viewer", PyDict(<<Entry("muted", PyInt(0))>>))
    IN  CASE i % 3 = 1 -> PyDict(<<did, handle, created>>)
          [] i % 3 = 2 -> PyDict(<<handle, did, viewer>>)
          [] OTHER -> PyDict(<<did>>)

\* the opaque continuation token that resumes after the p-th follower
CursorTok(p) == PyStr("c" \o ToString(p))

\* where a request's cursor parameter resumes (no cursor: from the start)
CursorPos(c) ==
    IF c = PyNone THEN 0 ELSE CHOOSE p \in 0..(MaxTotal + MaxLimit + 2) : CursorTok(p) = c

Page(from, k) == [i \in 1..k |-> RawFollower(from + i)]

JsonBody(es) == [kind |-> "json", payload |-> PyDict(es)]

\* A well-behaved API holding total followers: non-empty pages in order, every
\* page but the last carrying a cursor (the last has none, or a null one).
GoodResponses(req, total) ==
    LET start == CursorPos(req.cursor)
    IN  IF start >= total
        THEN {JsonBody(<<Entry("followers", PyList(<<>>))>>)}
        ELSE UNION {
               IF start + k < total
               THEN {JsonBody(<<Entry("followers", PyList(Page(start, k))),
                               Entry("cursor", CursorTok(start + k))>>)}
               ELSE {JsonBody(<<Entry("followers", PyList(Page(start, k)))>>),
                     JsonBody(<<Entry("followers", PyList(Page(start, k))),
                               Entry("cursor", PyNone)>>)}
               : k \in 1..(total - start)}

\* Anything else the endpoint can answer: transport failure or non-success
\* status, an undecodable body, JSON of another shape, pages of any size with
\* any cursor (also past the end, forever), items that are not objects.
FaultyResponses(req, got) ==
    {[kind |-> "http_error"], [kind |-> "bad_json"],
     [kind |-> "json", payload |-> PyList(<<>>)],
     [kind |-> "json", payload |-> PyStr("error")],
     JsonBody(<<Entry("cursor", CursorTok(got))>>),
     JsonBody(<<Entry("followers", PyNone)>>),
     JsonBody(<<Entry("followers", PyStr("none")), Entry("cursor", CursorTok(got))>>),
     JsonBody(<<Entry("followers", PyList(<<PyStr("oops")>>))>>),
     JsonBody(<<Entry("followers", PyList(<<RawFollower(got + 1), PyInt(7)>>)),
               Entry("cursor", CursorTok(got + 2))>>),
     JsonBody(<<Entry("followers",
                      PyList(<<PyDict(<<Entry("did", PyStr("did:plc:t")),
                                        Entry("createdAt", PyInt(1690000000))>>)>>))>>)}
    \cup UNION {{JsonBody(<<Entry("followers", PyList(Page(got, k))), Entry("cursor", c)>>)
                   : c \in {PyStr(""), CursorTok(got + k)}} : k \in 0..MaxTotal}

(***************************************************************************)
(* runner.ensure_output_path and runner.main                               *)
(***************************************************************************)
\* load_settings defaults: default_output_format, output_dir
DefaultFormat == PyText(JSON)
OutputDir == "data"

\* f"bluesky_{tag}.{fmt}"
Filename(tag, f) == "bluesky_" \o Joined(tag) \o "." \o Joined(f)

\* --output values: a file path, or a directory (existing, or ending in a separator)
FileArg == [t |-> "patharg", dir |-> FALSE, parent |-> "exports", name |-> "mine.out"]
DirArg == [t |-> "patharg", dir |-> TRUE, parent |-> "", name |-> "outdir"]

\* the path returned (None: standard output) and the directories it made
PathResult(path, made) == [path |-> path, mkdir |-> made]

ensure_output_path(base_dir, output_path_arg, f, actor_tag) ==
    IF f = PyText(JSON) /\ output_path_arg = PyNone /\ actor_tag = PyNone
    THEN PathResult(PyNone, {})
    ELSE LET tag == IF Falsy(actor_tag) THEN <<"followers">> ELSE actor_tag.v
             filename == Filename(tag, f.v)
         IN  IF ~Falsy(output_path_arg)
             THEN IF output_path_arg.dir
                  THEN PathResult([parent |-> output_path_arg.name, name |-> filename],
                                  {output_path_arg.name})
                  ELSE PathResult([parent |-> output_path_arg.parent,
                                   name |-> output_path_arg.name],
                                  {output_path_arg.parent})
             ELSE PathResult([parent |-> base_dir, name |-> filename], {base_dir})

\* actors named on the command line and in the input file
ActorList(a) ==
    (IF Falsy(a.actor) THEN <<>> ELSE <<Strip(a.actor.v)>>)
    \o (IF a.input_file = PyNone THEN <<>> ELSE a.input_file.actors)

\* "multi" for several actors, else the first with ':' and '/' replaced by '_'
ActorTag(actors) ==
    IF Len(actors) > 1 THEN PyText(<<"m", "u", "l", "t", "i">>)
    ELSE PyText(Replace(Replace(actors[1], ":", "_"), "/", "_"))

\* sanitize_output_format(args.output_format) or default_fmt
ResolveFormat(a) ==
    LET f == sanitize_output_format(a.output_format)
    IN  IF Falsy(f) THEN DefaultFormat ELSE f

\* the followers fetched for one actor, tagged with source_actor
Tagged(actor, n) ==
    [i \in 1..n |->
        LET f == _normalize_follower(RawFollower(i))
        IN  IF Has(f, "source_actor") THEN f
            ELSE PyDict(f.v \o <<Entry("source_actor", PyStr(Joined(actor)))>>)]

\* what client.fetch_followers does for one actor: raises, or returns n records
FetchOutcomes ==
    {[raised |-> TRUE, n |-> 0]} \cup {[raised |-> FALSE, n |-> k] : k \in 0..MaxRecords}

\* combined: the records of every actor whose fetch did not raise, in actor order
RECURSIVE Combined(_, _)
Combined(actors, fetched) ==
    IF actors = <<>> THEN <<>>
    ELSE (IF Head(fetched).raised THEN <<>> ELSE Tagged(Head(actors), Head(fetched).n))
         \o Combined(Tail(actors), Tail(fetched))

(***************************************************************************)
(* State                                                                   *)
(***************************************************************************)
VARIABLES
    \* fetch_followers: position, argument and locals
    pc, limit, followers, remaining, cursor,
    \* BlueskyFollowerClient.max_page_size
    max_page_size,
    \* HTTP sessions opened / closed by the call, requests sent, last page size asked
    opened, closed, requests,
    \* the responses the call has received, in order
    responses,
    \* outcome of the call: returned list, raised exception
    result, error,
    \* environment: followers the API holds, whether it has behaved so far
    apiTotal, apiOK,
    \* _normalize_follower called on its own: argument, result, position
    raw, normal, npc,
    \* export_followers: arguments, what the call did, position
    records, fmt, output_path, xout, xpc,
    \* runner.main: parsed arguments, what the export did, exit status, position
    args, mout, exit_code, mpc,
    \* file system: the directories that exist
    dirs

normVars == <<raw, normal, npc>>

exportVars == <<records, fmt, output_path, xout, xpc>>

mainVars == <<args, mout, exit_code, mpc>>

fetchVars == <<pc, limit, followers, remaining, cursor, max_page_size,
               opened, closed, requests, responses, result, error, apiTotal, apiOK>>

vars == <<fetchVars, normVars, exportVars, mainVars, dirs>>

\* what fetch_followers, _normalize_follower, export_followers leave alone
NotFetch == <<normVars, exportVars, mainVars, dirs>>
NotNorm == <<fetchVars, exportVars, mainVars, dirs>>
NotExport == <<fetchVars, normVars, mainVars>>
NotMain == <<fetchVars, normVars, exportVars>>

NoOutcome == [stdout |-> <<>>, written |-> PyNone, mkdir |-> {}, writer |-> "none",
              error |-> "none"]

NoError == "none"

\* dataclass default of max_page_size
DefaultMaxPageSize == 100
\* a smaller page cap passed to the constructor
SmallPageCap == 2

Min(a, b) == IF a <= b THEN a ELSE b

\* _normalize_follower is not under test
NormOff ==
    /\ raw = PyDict(<<>>)
    /\ normal = PyNone
    /\ npc = "off"

\* export_followers is not under test
ExportOff ==
    /\ records = <<>>
    /\ fmt = PyNone
    /\ output_path = PyNone
    /\ xout = NoOutcome
    /\ xpc = "off"

\* runner.main is not under test
MainOff ==
    /\ args = PyNone
    /\ mout = NoOutcome
    /\ exit_code = -1
    /\ mpc = "off"

\* fetch_followers is not under test
FetchOff ==
    /\ pc = "off"
    /\ limit = 0
    /\ followers = <<>>
    /\ remaining = 0
    /\ cursor = PyNone
    /\ max_page_size = DefaultMaxPageSize
    /\ opened = 0
    /\ closed = 0
    /\ requests = <<>>
    /\ responses = <<>>
    /\ result = <<>>
    /\ error = NoError
    /\ apiTotal = 0
    /\ apiOK = TRUE

InitFetch ==
    /\ pc = "idle"
    /\ limit = 0
    /\ followers = <<>>
    /\ remaining = 0
    /\ cursor = PyNone
    /\ max_page_size \in {DefaultMaxPageSize, SmallPageCap}
    /\ opened = 0
    /\ closed = 0
    /\ requests = <<>>
    /\ responses = <<>>
    /\ result = <<>>
    /\ error = NoError
    /\ apiTotal \in 0..MaxTotal
    /\ apiOK = TRUE

(***************************************************************************)
(* fetch_followers                                                         *)
(***************************************************************************)
\* the with-block exits: the session is closed, then the call returns
ReturnFollowers(fs) ==
    /\ closed' = closed + 1
    /\ result' = fs
    /\ pc' = "returned"
    /\ error' = error

\* faulty variant: the session is not scoped, an exception leaves it open
RaiseOutLeak(exc) ==
    /\ closed' = closed
    /\ error' = exc
    /\ pc' = "raised"
    /\ result' = result

\* an exception leaves the with-block: the session is closed, the call raises
RaiseOut(exc) ==
    /\ closed' = closed + 1
    /\ error' = exc
    /\ pc' = "raised"
    /\ result' = result

\* faulty variant: the precondition is checked as limit < 0
CallZeroAllowed(l) ==
    /\ pc = "idle"
    /\ limit' = l
    /\ IF l < 0
       THEN /\ error' = "ValueError"
            /\ pc' = "raised"
            /\ UNCHANGED <<followers, remaining, cursor, opened>>
       ELSE /\ followers' = <<>>
            /\ remaining' = l
            /\ cursor' = PyNone
            /\ opened' = opened + 1
            /\ pc' = "loop"
            /\ error' = error
    /\ UNCHANGED <<max_page_size, closed, requests, responses, result, apiTotal, apiOK>>
    /\ UNCHANGED NotFetch

\* fetch_followers(actor, limit=l): the precondition, the locals, the session
Call(l) ==
    /\ pc = "idle"
    /\ limit' = l
    /\ IF l <= 0
       THEN /\ error' = "ValueError"
            /\ pc' = "raised"
            /\ UNCHANGED <<followers, remaining, cursor, opened>>
       ELSE /\ followers' = <<>>
            /\ remaining' = l
            /\ cursor' = PyNone
            /\ opened' = opened + 1
            /\ pc' = "loop"
            /\ error' = error
    /\ UNCHANGED <<max_page_size, closed, requests, responses, result, apiTotal, apiOK>>
    /\ UNCHANGED NotFetch

\* faulty variant: every request asks for a full page, whatever is still needed
SendRequestFullPage ==
    /\ pc = "loop"
    /\ remaining > 0
    /\ requests' = Append(requests,
            [limit |-> max_page_size,
             cursor |-> IF Truthy(cursor) THEN cursor ELSE PyNone,
             sessionOpen |-> opened > closed])
    /\ pc' = "wait"
    /\ UNCHANGED <<limit, followers, remaining, cursor, max_page_size,
                   opened, closed, responses, result, error, apiTotal, apiOK>>
    /\ UNCHANGED NotFetch

\* faulty variant: the loop condition is remaining >= 0
SendRequestOffByOne ==
    /\ pc = "loop"
    /\ remaining >= 0
    /\ LET page_size == Min(max_page_size, remaining)
       IN  requests' = Append(requests,
                [limit |-> page_size,
                 cursor |-> IF Truthy(cursor) THEN cursor ELSE PyNone,
                 sessionOpen |-> opened > closed])
    /\ pc' = "wait"
    /\ UNCHANGED <<limit, followers, remaining, cursor, max_page_size,
                   opened, closed, responses, result, error, apiTotal, apiOK>>
    /\ UNCHANGED NotFetch

\* while remaining > 0: build params and send the GET
SendRequest ==
    /\ pc = "loop"
    /\ remaining > 0
    /\ LET page_size == Min(max_page_size, remaining)
       IN  requests' = Append(requests,
                [limit |-> page_size,
                 cursor |-> IF Truthy(cursor) THEN cursor ELSE PyNone,
                 sessionOpen |-> opened > closed])
    /\ pc' = "wait"
    /\ UNCHANGED <<limit, followers, remaining, cursor, max_page_size,
                   opened, closed, responses, result, error, apiTotal, apiOK>>
    /\ UNCHANGED NotFetch

\* while remaining > 0 is false: leave the loop and the with-block
LoopExit ==
    /\ pc = "loop"
    /\ remaining <= 0
    /\ ReturnFollowers(followers)
    /\ UNCHANGED <<limit, followers, remaining, cursor, max_page_size,
                   opened, requests, responses, apiTotal, apiOK>>
    /\ UNCHANGED NotFetch

\* faulty variant: the item loop never breaks on remaining <= 0
VisitedWholePage(page, rem) == Len(page)

\* for raw in page_followers: the number of items the loop visits before it
\* breaks on remaining <= 0 or runs out of items
Visited(page, rem) == Min(Len(page), rem)

\* the first visited item on which _normalize_follower raises, 0 if none
FirstBad(page, rem) ==
    LET bad == {i \in 1..Visited(page, rem) : NormalizeRaises(page[i])}
    IN  IF bad = {} THEN 0 ELSE CHOOSE i \in bad : \A j \in bad : i <= j

\* the response to the request in flight arrives: the rest of the loop body
Receive(resp) ==
    /\ pc = "wait"
    /\ UNCHANGED <<limit, max_page_size, opened, requests, apiTotal>>
    /\ responses' = Append(responses, resp)
    /\ IF resp.kind \in {"http_error", "bad_json"}
       THEN /\ ReturnFollowers(followers)
            /\ UNCHANGED <<followers, remaining, cursor>>
       ELSE IF resp.payload.t # "dict"
       THEN /\ RaiseOut("AttributeError")
            /\ UNCHANGED <<followers, remaining, cursor>>
       ELSE LET payload == resp.payload
                page_followers == GetOr(payload, "followers", PyList(<<>>))
            IN  IF page_followers.t # "list" \/ ~Truthy(page_followers)
                THEN /\ ReturnFollowers(followers)
                     /\ UNCHANGED <<followers, remaining, cursor>>
                ELSE LET page == page_followers.v
                         n == Visited(page, remaining)
                         bad == FirstBad(page, remaining)
                         fs == followers \o [i \in 1..n |-> _normalize_follower(page[i])]
                     IN  IF bad # 0
                         THEN /\ RaiseOut("AttributeError")
                              /\ followers' = followers \o
                                     [i \in 1..(bad - 1) |-> _normalize_follower(page[i])]
                              /\ remaining' = remaining - (bad - 1)
                              /\ cursor' = cursor
                         ELSE /\ followers' = fs
                              /\ remaining' = remaining - n
                              /\ cursor' = Get(payload, "cursor")
                              /\ IF ~Truthy(Get(payload, "cursor"))
                                 THEN ReturnFollowers(fs)
                                 ELSE /\ pc' = "loop"
                                      /\ UNCHANGED <<closed, result, error>>

\* the API answers the request in flight
ApiRespond ==
    /\ pc = "wait"
    /\ LET req == requests[Len(requests)]
       IN  \/ \E resp \in GoodResponses(req, apiTotal) :
                 Receive(resp) /\ apiOK' = apiOK
           \/ \E resp \in FaultyResponses(req, Len(followers)) :
                 Receive(resp) /\ apiOK' = FALSE
    /\ UNCHANGED NotFetch

NextFetch ==
    \/ \E l \in -1..MaxLimit : Call(l)
    \/ SendRequest
    \/ LoopExit
    \/ ApiRespond

Init ==
    /\ InitFetch
    /\ NormOff
    /\ ExportOff
    /\ MainOff
    /\ dirs = {}

Next == NextFetch

\* fetch_followers against an arbitrary API
Spec == Init /\ [][Next]_vars

\* the same call with the guarantee that it keeps running: the interpreter
\* executes the next statement, and every GET ends in a response or an error
SpecLive == Init /\ [][Next]_vars /\ WF_vars(Next)

(***************************************************************************)
(* _normalize_follower on its own                                          *)
(***************************************************************************)
Absent == [t |-> "absent"]

\* the raw object holding the entries that are not Absent, in the order given
RawOf(es) == PyDict(SelectSeq(es, LAMBDA e : e.v # Absent))

\* raw follower objects: every promoted source key missing, null, empty or set
RawInputs ==
    {RawOf(<<Entry("did", d), Entry("link_to_profile", l), Entry("handle", h),
             Entry("displayName", n), Entry("avatar", a), Entry("createdAt", c),
             Entry("description", ds), Entry("bio", b), Entry("labels", ls),
             Entry("associated", as), Entry("viewer", v)>>) :
        d \in {Absent, PyNone, PyStr(""), PyStr("did:plc:a")},
        l \in {Absent, PyStr("https://example.org/me")},
        h \in {Absent, PyNone, PyStr(""), PyStr("alice.example")},
        n \in {Absent, PyStr("Alice")},
        a \in {Absent, PyStr("https://cdn.example/a.png")},
        c \in {Absent, PyStr("   "), PyStr("2023-07-27T23:07:25.712Z"),
               PyStr("yesterday"), PyInt(1690000000)},
        ds \in {Absent, PyStr("hello")},
        b \in {Absent, PyStr("from bio")},
        ls \in {Absent, PyList(<<PyStr("bot")>>)},
        as \in {Absent, PyDict(<<Entry("lists", PyInt(1))>>)},
        v \in {Absent, PyInt(1)}}

InitNorm ==
    /\ raw \in RawInputs
    /\ normal = PyNone
    /\ npc = "input"
    /\ FetchOff
    /\ ExportOff
    /\ MainOff
    /\ dirs = {}

\* _normalize_follower(raw) returns
Normalize ==
    /\ npc = "input"
    /\ ~NormalizeRaises(raw)
    /\ normal' = _normalize_follower(raw)
    /\ npc' = "done"
    /\ raw' = raw
    /\ UNCHANGED NotNorm

\* _normalize_follower(raw) raises
NormalizeFails ==
    /\ npc = "input"
    /\ NormalizeRaises(raw)
    /\ npc' = "raised"
    /\ UNCHANGED <<raw, normal>>
    /\ UNCHANGED NotNorm

NextNorm == Normalize \/ NormalizeFails

SpecNorm == InitNorm /\ [][NextNorm]_vars

(***************************************************************************)
(* export_followers on its own                                             *)
(***************************************************************************)
Text(s) ==
    CASE s = "json" -> PyText(JSON)
      [] s = "JSON" -> PyText(<<"J", "S", "O", "N">>)
      [] s = " json " -> PyText(<<" ", "j", "s", "o", "n", " ">>)
      [] s = "csv" -> PyText(CSV)
      [] s = "\tCsv\n" -> PyText(<<"\t", "C", "s", "v", "\n">>)
      [] s = "xml" -> PyText(XML)
      [] s = "html" -> PyText(HTML)
      [] s = "HTM" -> PyText(<<"H", "T", "M">>)
      [] s = " htm" -> PyText(<<" ", "h", "t", "m">>)
      [] s = "rss" -> PyText(RSS)
      [] s = "yaml" -> PyText(<<"y", "a", "m", "l">>)
      [] s = "js on" -> PyText(<<"j", "s", " ", "o", "n">>)
      [] s = "  " -> PyText(<<" ", " ">>)
      [] s = "" -> PyText(<<>>)

\* the format tags handed to export_followers
TagNames == {"json", "JSON", " json ", "csv", "\tCsv\n", "xml", "html", "HTM", " htm",
             "rss", "yaml", "js on", "  ", ""}
FormatTags == {Text(s) : s \in TagNames} \cup {PyNone}

\* records of the shapes the export engine is handed
RecordChoices ==
    {PyDict(<<Entry("did", PyStr("did:plc:a")), Entry("handle", PyStr("a.example"))>>),
     PyDict(<<Entry("handle", PyStr("b.example")), Entry("did", PyNone),
              Entry("labels", PyList(<<PyStr("bot")>>))>>),
     PyDict(<<Entry("source_actor", PyStr("")), Entry("did", PyInt(3))>>),
     PyDict(<<Entry("associated", PyDict(<<>>))>>),
     PyDict(<<>>)}

RecordSets == UNION {[1..n -> RecordChoices] : n \in 0..MaxRecords}

Destination == [parent |-> "out", name |-> "followers.dat"]

InitExport ==
    /\ records \in RecordSets
    /\ fmt \in FormatTags
    /\ output_path \in {PyNone, Destination}
    /\ dirs \in {{}, {"out"}}
    /\ xout = NoOutcome
    /\ xpc = "call"
    /\ FetchOff
    /\ NormOff
    /\ MainOff

\* export_followers(records, fmt, output_path) returns
ExportReturns ==
    /\ xpc = "call"
    /\ LET o == export_followers(records, fmt, output_path, dirs)
       IN  /\ o.error = "none"
           /\ xout' = o
           /\ dirs' = dirs \cup o.mkdir
    /\ xpc' = "done"
    /\ UNCHANGED <<records, fmt, output_path>>
    /\ UNCHANGED NotExport

\* export_followers(records, fmt, output_path) raises
ExportRaises ==
    /\ xpc = "call"
    /\ LET o == export_followers(records, fmt, output_path, dirs)
       IN  /\ o.error # "none"
           /\ xout' = o
           /\ dirs' = dirs \cup o.mkdir
    /\ xpc' = "raised"
    /\ UNCHANGED <<records, fmt, output_path>>
    /\ UNCHANGED NotExport

NextExport == ExportReturns \/ ExportRaises

SpecExport == InitExport /\ [][NextExport]_vars

(***************************************************************************)
(* runner.main                                                             *)
(***************************************************************************)
Actor(s) ==
    CASE s = "al" -> PyText(<<"a", "l">>)
      [] s = " did:x/1 " -> PyText(<<" ", "d", "i", "d", ":", "x", "/", "1", " ">>)
      [] s = " " -> PyText(<<" ">>)

\* parsed command lines
ArgSets ==
    [actor : {PyNone, Actor("al"), Actor(" did:x/1 "), Actor(" ")},
     input_file : {PyNone, [found |-> FALSE, actors |-> <<>>],
                   [found |-> TRUE, actors |-> <<>>],
                   [found |-> TRUE, actors |-> <<<<"b", "o">>>>]},
     output_format : {PyNone, Text("json"), Text("JSON"), Text("csv"), Text("yaml")},
     output_path : {PyNone, PyText(<<>>), FileArg, DirArg}]

InitMain ==
    /\ args \in ArgSets
    /\ mout = NoOutcome
    /\ exit_code = -1
    /\ mpc = "start"
    /\ dirs \in {{}, {OutputDir}}
    /\ FetchOff
    /\ NormOff
    /\ ExportOff

Exit(code) ==
    /\ exit_code' = code
    /\ mpc' = "exited"
    /\ UNCHANGED <<args, mout, dirs>>
    /\ UNCHANGED NotMain

\* neither --actor nor --input-file, a missing input file, or no actor at all
MainNoActors ==
    /\ mpc = "start"
    /\ \/ Falsy(args.actor) /\ args.input_file = PyNone
       \/ args.input_file # PyNone /\ ~args.input_file.found
       \/ ActorList(args) = <<>>
    /\ Exit(1)

\* every fetch raised or returned nothing: sys.exit(0) before any export
MainNothingFetched ==
    /\ mpc = "start"
    /\ ~(Falsy(args.actor) /\ args.input_file = PyNone)
    /\ args.input_file # PyNone => args.input_file.found
    /\ ActorList(args) # <<>>
    /\ \E fetched \in [1..Len(ActorList(args)) -> FetchOutcomes] :
          Combined(ActorList(args), fetched) = <<>>
    /\ Exit(0)

\* the records are exported: ensure_output_path, then export_followers
MainExport ==
    /\ mpc = "start"
    /\ ~(Falsy(args.actor) /\ args.input_file = PyNone)
    /\ args.input_file # PyNone => args.input_file.found
    /\ ActorList(args) # <<>>
    /\ \E fetched \in [1..Len(ActorList(args)) -> FetchOutcomes] :
          LET actors == ActorList(args)
              combined == Combined(actors, fetched)
              f == ResolveFormat(args)
              where == ensure_output_path(OutputDir, args.output_path, f, ActorTag(actors))
              o == export_followers(combined, f, where.path, dirs \cup where.mkdir)
          IN  /\ combined # <<>>
              /\ mout' = o
              /\ dirs' = dirs \cup where.mkdir \cup o.mkdir
              /\ exit_code' = IF o.error = "none" THEN 0 ELSE 1
    /\ mpc' = "done"
    /\ args' = args
    /\ UNCHANGED NotMain

NextMain == MainNoActors \/ MainNothingFetched \/ MainExport

SpecMain == InitMain /\ [][NextMain]_vars

(***************************************************************************)
(* Properties of fetch_followers (specification Spec)                      *)
(***************************************************************************)
\* the first n followers of the API, normalized, in arrival order
ExpectedFollowers(n) == [i \in 1..n |-> _normalize_follower(RawFollower(i))]

Finished == pc \in {"returned", "raised"}

\* C1: with a positive limit N and an API that serves its followers in non-empty
\* pages, each but the last with a cursor, the call returns without raising the
\* first min(N, total) followers of the API, normalized, in arrival order:
\* exactly N when the API holds at least N, all of them when it holds fewer.
C1_FetchReturnsLimitOrAll ==
    (Finished /\ limit > 0 /\ apiOK) =>
        /\ pc = "returned"
        /\ error = NoError
        /\ result = ExpectedFollowers(Min(limit, apiTotal))

\* C1 witness: the limit is reached on the second page of an API holding enough
C1_Witness ==
    /\ pc = "returned"
    /\ apiOK
    /\ limit > 1
    /\ apiTotal >= limit
    /\ Len(requests) = 2
    /\ Len(result) = limit

\* C2: with a positive limit, fetch_followers never raises to its caller, whatever
\* the endpoint answers (transport failure, undecodable body, unexpected shape).
C2_FetchNeverRaises ==
    limit > 0 =>
        /\ pc # "raised"
        /\ pc = "returned" => result = followers

\* C3: a call with limit <= 0 raises ValueError before any session is opened and
\* before any request is sent, and returns no record.
C3_NonPositiveLimitRejected ==
    (pc # "idle" /\ limit <= 0) =>
        /\ pc = "raised"
        /\ error = "ValueError"
        /\ opened = 0
        /\ requests = <<>>
        /\ result = <<>>

\* C3 witness: fetch_followers(actor, 0) has raised
C3_Witness == pc = "raised" /\ limit = 0 /\ error = "ValueError"

\* C4: a call with a positive limit opens exactly one session, the session is open
\* while the loop runs and whenever a request is sent, and it is closed once the
\* call has returned or raised, on every exit path.
C4_SessionScoped ==
    /\ pc \in {"loop", "wait"} => (opened = 1 /\ closed = 0)
    /\ (Finished /\ limit > 0) => (opened = 1 /\ closed = 1)
    /\ Finished => closed = opened
    /\ \A i \in 1..Len(requests) : requests[i].sessionOpen
    /\ closed <= opened

\* C4 witness: an exception left the loop on a later page and the session is closed
C4_Witness ==
    /\ pc = "raised"
    /\ error = "AttributeError"
    /\ Len(requests) >= 2
    /\ closed = 1

\* the cursor a response returned (None when the response carries no JSON object)
ReturnedCursor(resp) ==
    IF resp.kind = "json" /\ resp.payload.t = "dict"
    THEN Get(resp.payload, "cursor")
    ELSE PyNone

\* C11: within one call the requests are issued one at a time (a request is
\* sent only after every earlier one has been answered), the first request
\* carries no cursor, every later request carries exactly the cursor returned
\* by the immediately preceding response, and the request in flight asks for
\* min(max_page_size, remaining) records with remaining = limit - accumulated,
\* so every requested size lies between 1 and max_page_size.
C11_SequentialCursorPaging ==
    /\ Len(requests) = Len(responses) + (IF pc = "wait" THEN 1 ELSE 0)
    /\ requests # <<>> => requests[1].cursor = PyNone
    /\ \A i \in 2..Len(requests) :
          /\ Truthy(ReturnedCursor(responses[i - 1]))
          /\ requests[i].cursor = ReturnedCursor(responses[i - 1])
    /\ pc = "wait" =>
          /\ remaining = limit - Len(followers)
          /\ requests[Len(requests)].limit = Min(max_page_size, limit - Len(followers))
    /\ \A i \in 1..Len(requests) :
          /\ 1 <= requests[i].limit
          /\ requests[i].limit <= max_page_size

\* a second request is in flight: it resumes from the first response's cursor
\* and asks for fewer records than the page cap because fewer are still needed
C11_Witness ==
    /\ pc = "wait"
    /\ Len(requests) = 2
    /\ Len(responses) = 1
    /\ requests[1].limit = max_page_size
    /\ requests[2].limit = limit - Len(followers)
    /\ requests[2].limit < max_page_size
    /\ requests[2].cursor = ReturnedCursor(responses[1])
    /\ requests[2].cursor # PyNone

\* number of items in the page a response carried (0 when it carried none)
PageLen(resp) ==
    IF resp.kind = "json" /\ resp.payload.t = "dict"
       /\ GetOr(resp.payload, "followers", PyList(<<>>)).t = "list"
    THEN Len(GetOr(resp.payload, "followers", PyList(<<>>)).v)
    ELSE 0

\* C12: for every positive limit and whatever the API answers, the call
\* terminates (returns or raises) having sent at most limit requests; while
\* it runs and after it, accumulated + remaining = limit, accumulated <= limit,
\* and no request is in flight once accumulated has reached limit.
C12_TerminatesWithinLimit ==
    /\ [](limit > 0 /\ pc # "idle" =>
            /\ Len(followers) + remaining = limit
            /\ Len(followers) <= limit
            /\ Len(requests) <= limit
            /\ pc = "wait" => Len(followers) < limit)
    /\ (pc \in {"loop", "wait"} ~> pc \in {"returned", "raised"})

\* the API kept answering non-empty pages with a cursor, the last page larger
\* than requested: the call still returned, after exactly limit requests
C12_Witness ==
    /\ pc = "returned"
    /\ limit >= 2
    /\ Len(requests) = limit
    /\ Len(result) = limit
    /\ \A i \in 1..Len(responses) :
          PageLen(responses[i]) > 0 /\ Truthy(ReturnedCursor(responses[i]))
    /\ PageLen(responses[Len(responses)]) > requests[Len(requests)].limit

(***************************************************************************)
(* Properties of _normalize_follower (specification SpecNorm)              *)
(***************************************************************************)
\* promoted fields that are read from a raw key of the same name
SourcedKeys == PromotedKeySet \ {"link_to_profile"}

\* C7 as stated: every promoted key is in the record, and every promoted field
\* whose source key is missing from the raw object is null.
C7_MissingIsNull ==
    npc = "done" =>
        /\ \A k \in PromotedKeySet : Has(normal, k)
        /\ \A k \in SourcedKeys : ~Has(raw, k) => Get(normal, k) = PyNone

\* C7 amended: the record starts with the nine promoted keys; did, handle,
\* displayName, avatar and createdAt are null when their source key is missing;
\* a missing description takes the raw bio value (null when bio is missing too),
\* missing labels are the empty list and missing associated the empty object.
C7_PromotedKeysAlwaysPresent ==
    npc = "done" =>
        /\ Len(normal.v) >= Len(PromotedKeys)
        /\ SubSeq(Keys(normal), 1, Len(PromotedKeys)) = PromotedKeys
        /\ \A k \in {"did", "handle", "displayName", "avatar", "createdAt"} :
              ~Has(raw, k) => Get(normal, k) = PyNone
        /\ ~Has(raw, "description") => Get(normal, "description") = Get(raw, "bio")
        /\ ~Has(raw, "labels") => Get(normal, "labels") = PyList(<<>>)
        /\ ~Has(raw, "associated") => Get(normal, "associated") = PyDict(<<>>)

\* C7 witness: the empty raw object has been normalized
C7_Witness ==
    /\ npc = "done"
    /\ raw = PyDict(<<>>)
    /\ Get(normal, "labels") = PyList(<<>>)
    /\ Get(normal, "avatar") = PyNone

ProfileUrl(x) == PyStr(ProfileBase \o PyFormat(x))

\* C10 as stated: link_to_profile is the handle URL when the handle key is present,
\* else the did URL when the did key is present, else null.
C10_LinkByPresence ==
    npc = "done" =>
        Get(normal, "link_to_profile") =
            IF Has(raw, "handle") THEN ProfileUrl(Get(raw, "handle"))
            ELSE IF Has(raw, "did") THEN ProfileUrl(Get(raw, "did"))
                 ELSE PyNone

\* C10 amended: link_to_profile is the handle URL when handle is present with a
\* non-empty value, else the did URL when did is present with a non-empty value,
\* else null (a null or empty handle or did counts as absent); a link_to_profile
\* key of the raw object never replaces the derived value.
C10_LinkByNonEmptyValue ==
    npc = "done" =>
        /\ Get(normal, "link_to_profile") =
              IF Has(raw, "handle") /\ Get(raw, "handle") \notin {PyNone, PyStr("")}
              THEN ProfileUrl(Get(raw, "handle"))
              ELSE IF Has(raw, "did") /\ Get(raw, "did") \notin {PyNone, PyStr("")}
                   THEN ProfileUrl(Get(raw, "did"))
                   ELSE PyNone
        /\ Cardinality({i \in 1..Len(normal.v) : normal.v[i].k = "link_to_profile"}) = 1

\* C10 witness: an empty handle, a did, and a raw link_to_profile that is ignored
C10_Witness ==
    /\ npc = "done"
    /\ Get(raw, "handle") = PyStr("")
    /\ Truthy(Get(raw, "did"))
    /\ Has(raw, "link_to_profile")
    /\ Get(normal, "link_to_profile") = ProfileUrl(Get(raw, "did"))

(***************************************************************************)
(* Properties of export_followers (specification SpecExport)               *)
(***************************************************************************)
\* the format a tag stands for once trimmed and lower-cased, tag by tag
ResolvesTo(s) ==
    CASE s \in {"json", "JSON", " json "} -> "json"
      [] s \in {"csv", "\tCsv\n"} -> "csv"
      [] s = "xml" -> "xml"
      [] s \in {"html", "HTM", " htm"} -> "html"
      [] s = "rss" -> "rss"
      [] OTHER -> "invalid"

ExpectedWriter(f) ==
    IF f = PyNone THEN "invalid" ELSE ResolvesTo(CHOOSE s \in TagNames : Text(s) = f)

Exported == xpc \in {"done", "raised"}

InvalidFormat ==
    /\ xpc = "raised"
    /\ xout.error = "ValueError"
    /\ xout.writer = "none"
    /\ xout.written = PyNone
    /\ xout.stdout = <<>>

\* C5 as stated: for every record set and destination the call dispatches to the
\* writer of the format the trimmed, lower-cased, aliased tag stands for, and fails
\* with ValueError, no writer run, when the tag is empty or stands for no format.
C5_DispatchForEveryInput ==
    Exported =>
        IF ExpectedWriter(fmt) = "invalid" THEN InvalidFormat
        ELSE xout.writer = ExpectedWriter(fmt)

\* C5 amended: for every non-empty record set the tag is trimmed, lower-cased and
\* aliased; an empty or unknown tag fails with ValueError and no writer runs; csv,
\* xml, html and rss without a destination fail with ValueError and no writer runs;
\* otherwise the writer of the resolved format runs ("HTM" with a destination: the
\* HTML writer).  With an empty record set the call returns without raising,
\* whatever the tag, and no writer runs.
C5_FormatResolution ==
    Exported =>
        IF records = <<>> THEN xpc = "done" /\ xout.writer = "none"
        ELSE IF ExpectedWriter(fmt) = "invalid" THEN InvalidFormat
        ELSE IF ExpectedWriter(fmt) # "json" /\ output_path = PyNone THEN InvalidFormat
        ELSE xpc = "done" /\ xout.writer = ExpectedWriter(fmt)

\* C5 witness: "HTM" with records and a destination ran the HTML writer
C5_Witness ==
    /\ xpc = "done"
    /\ fmt = Text("HTM")
    /\ records # <<>>
    /\ xout.writer = "html"
    /\ xout.written # PyNone

\* C6: with an empty record set no file or directory is created or written; "[]"
\* is printed when the tag resolves to json (as format resolution resolves it) and
\* no destination is given, and nothing is printed otherwise.
C6_EmptyExport ==
    (Exported /\ records = <<>>) =>
        /\ xout.written = PyNone
        /\ xout.mkdir = {}
        /\ xout.stdout = IF ExpectedWriter(fmt) = "json" /\ output_path = PyNone
                         THEN <<[json |-> <<>>]>>
                         ELSE <<>>

\* the first record that has key k, and where k stands in it
FirstRecord(k) == CHOOSE i \in 1..Len(records) :
    Has(records[i], k) /\ \A j \in 1..(i - 1) : ~Has(records[j], k)
PositionIn(rec, k) == CHOOSE p \in 1..Len(rec.v) : rec.v[p].k = k
AppearsBefore(k1, k2) ==
    \/ FirstRecord(k1) < FirstRecord(k2)
    \/ /\ FirstRecord(k1) = FirstRecord(k2)
       /\ PositionIn(records[FirstRecord(k1)], k1) < PositionIn(records[FirstRecord(k1)], k2)

\* C9: for a non-empty record sequence the CSV header is the union of the keys of
\* all records, each once, in order of first appearance; there is one row per
\* record, in input order, each with one cell per column, empty where the record
\* lacks the key or holds null.
C9_CsvHeaderAndRows ==
    (Exported /\ records # <<>> /\ ExpectedWriter(fmt) = "csv" /\ output_path # PyNone) =>
        /\ xpc = "done"
        /\ xout.written # PyNone
        /\ LET c == xout.written.content
           IN  /\ c.kind = "csv"
               /\ Range(c.header) = UNION {KeySet(records[i]) : i \in 1..Len(records)}
               /\ \A a, b \in 1..Len(c.header) :
                     a < b => AppearsBefore(c.header[a], c.header[b])
               /\ Len(c.rows) = Len(records)
               /\ \A i \in 1..Len(records) :
                     /\ Len(c.rows[i]) = Len(c.header)
                     /\ \A j \in 1..Len(c.header) :
                           IF Has(records[i], c.header[j])
                           THEN Get(records[i], c.header[j]) = PyNone => c.rows[i][j] = ""
                           ELSE c.rows[i][j] = ""

\* C9 witness: two records with different keys, one of them null, written as CSV
C9_Witness ==
    /\ xpc = "done"
    /\ xout.writer = "csv"
    /\ Len(records) >= 2
    /\ KeySet(records[1]) # KeySet(records[2])
    /\ ~(KeySet(records[2]) \subseteq KeySet(records[1]))
    /\ \E k \in KeySet(records[2]) : Get(records[2], k) = PyNone

(***************************************************************************)
(* Properties of runner.main (specification SpecMain)                      *)
(***************************************************************************)
\* C8: a run for a single actor with the JSON format and no --output writes the
\* exported records to standard output, not to a file.
C8_SingleActorJsonToStdout ==
    (/\ mpc = "done"
     /\ Len(ActorList(args)) = 1
     /\ args.output_format \in {PyNone, Text("json"), Text("JSON")}
     /\ args.output_path = PyNone) =>
        /\ mout.stdout # <<>>
        /\ mout.written = PyNone

====
